---- MODULE Spec2Model ----
(***************************************************************************)
(* Model of node-red/read_gamepad.py: overlapping invocations of the       *)
(* joystick helper, the flock guard, the persisted state file written      *)
(* through a temporary file, and the sampling window over the device.      *)
(*                                                                         *)
(* Time is counted in ticks of one global clock.  time.monotonic() reads   *)
(* the clock, time.time() reads the clock shifted by WallEpoch.  The four  *)
(* timing parameters are the TX12_* settings expressed in ticks.           *)
(* event_count (line 127/161) only feeds the debug output and is left out. *)
(***************************************************************************)
EXTENDS Integers, Sequences, FiniteSets, TLC

\* ---- bounds of the model -------------------------------------------------
\* overlapping invocations, ticks of the clock, records the device produces
NumProcs == 2
MaxClock == 4
MaxEvents == 2
\* length of the sequences and the counts normalisation is tried on
MaxLen == 5
MaxCount == 5
\* failed attempts within one open_serial call, and connections lost
MaxFails == 6
MaxReopens == 2

\* ---- program constants ---------------------------------------------------
\* TX12_READ_WINDOW, TX12_EVENT_EXTENSION, TX12_SELECT_TIMEOUT and
\* TX12_MIN_REFRESH_INTERVAL are read from the environment and clamped to
\* >= 0; the values below are one such setting, in ticks, that keeps the
\* order of the defaults (extension and poll shorter than the window)
READ_WINDOW == 2
EVENT_EXTENSION == 1
SELECT_TIMEOUT == 1
MIN_REFRESH_INTERVAL == 1
JS_EVENT_BUTTON == 1
JS_EVENT_AXIS == 2
AXES_COUNT == 4
BUTTON_COUNT == 4
\* improved_arduino_monitor.py: the first sleep of open_serial and its cap
BACKOFF_START == 2
BACKOFF_CAP == 30
\* time.time() at clock 0: the wall clock is far from the epoch
WallEpoch == 10

Procs == 1..NumProcs
NoProc == 0

Min(a, b) == IF a <= b THEN a ELSE b
Max(a, b) == IF a >= b THEN a ELSE b

\* ---- JSON values as they sit in the state file ---------------------------
\* a JSON scalar: an integer, a non-numeric string, or Infinity
JInt(n) == [t |-> "int", v |-> n]
JStr == [t |-> "str", v |-> 0]
JInf == [t |-> "inf", v |-> 0]
\* a JSON value used for "axes"/"buttons": a sequence of scalars, or a
\* value that cannot be sliced (a number, null)
JSeq(s) == [seq |-> TRUE, items |-> s]
JNonSeq == [seq |-> FALSE, items |-> <<>>]

Zeros(n) == [i \in 1..n |-> 0]

\* contents of a file: kind is "missing", "garbage" (not JSON), "partial"
\* (a JSON document cut short by an unfinished write), "nondict" (JSON, not
\* an object) or "dict"
FileOf(kind, a, b, ts) == [kind |-> kind, axes |-> a, buttons |-> b, timestamp |-> ts]
MissingFile == FileOf("missing", JSeq(<<>>), JSeq(<<>>), JInt(0))
GarbageFile == FileOf("garbage", JSeq(<<>>), JSeq(<<>>), JInt(0))
PartialFile == FileOf("partial", JSeq(<<>>), JSeq(<<>>), JInt(0))
NonDictFile == FileOf("nondict", JSeq(<<>>), JSeq(<<>>), JInt(0))

\* json.dump({"axes": axes, "buttons": buttons, "timestamp": timestamp})
JsonDump(a, b, ts) ==
    FileOf("dict", JSeq([i \in 1..Len(a) |-> JInt(a[i])]),
                   JSeq([i \in 1..Len(b) |-> JInt(b[i])]), JInt(ts))

\* ---- results of calls that may raise -------------------------------------
Ok(v) == [exc |-> "none", val |-> v]
Raise(e) == [exc |-> e, val |-> <<>>]

\* int(value) inside _normalise: TypeError/ValueError are caught and give 0,
\* int(float("inf")) raises OverflowError, which is not caught
IntOf(j) == IF j.t = "int" THEN Ok(j.v)
            ELSE IF j.t = "str" THEN Ok(0)
            ELSE Raise("OverflowError")

\* mutant: a short list is extended by count zeros
_normalisePadCount(values, count) ==
    IF ~values.seq THEN Raise("TypeError")
    ELSE LET cut == SubSeq(values.items, 1, Min(count, Len(values.items)))
             bad == {i \in 1..Len(cut) : IntOf(cut[i]).exc # "none"}
             n == IF Len(cut) < count THEN Len(cut) + count ELSE Len(cut)
         IN IF bad # {} THEN Raise("OverflowError")
            ELSE Ok([i \in 1..n |-> IF i <= Len(cut) THEN IntOf(cut[i]).val ELSE 0])

\* mutant: the values are not cut to count before they are converted
_normaliseNoTruncate(values, count) ==
    IF ~values.seq THEN Raise("TypeError")
    ELSE LET cut == values.items
             bad == {i \in 1..Len(cut) : IntOf(cut[i]).exc # "none"}
         IN IF bad # {} THEN Raise("OverflowError")
            ELSE Ok([i \in 1..Max(count, Len(cut)) |->
                       IF i <= Len(cut) THEN IntOf(cut[i]).val ELSE 0])

\* _normalise(values, count)
_normalise(values, count) ==
    IF ~values.seq THEN Raise("TypeError")
    ELSE LET cut == SubSeq(values.items, 1, Min(count, Len(values.items)))
             bad == {i \in 1..Len(cut) : IntOf(cut[i]).exc # "none"}
         IN IF bad # {} THEN Raise("OverflowError")
            ELSE Ok([i \in 1..count |->
                       IF i <= Len(cut) THEN IntOf(cut[i]).val ELSE 0])

\* float(timestamp) with TypeError/ValueError caught
FloatOf(j) == IF j.t = "int" THEN j.v ELSE 0

\* _load_previous_state(): the 3-tuple (axes, buttons, last_read), or an
\* exception that escapes it
_load_previous_state(file) ==
    IF file.kind \in {"missing", "garbage", "partial"}
    THEN Ok(<<Zeros(AXES_COUNT), Zeros(BUTTON_COUNT), 0>>)
    ELSE LET isdict == file.kind = "dict"
             a == IF isdict THEN file.axes ELSE JSeq(<<>>)
             b == IF isdict THEN file.buttons ELSE JSeq(<<>>)
             ts == IF isdict THEN file.timestamp ELSE JInt(0)
             na == _normalise(a, AXES_COUNT)
             nb == _normalise(b, BUTTON_COUNT)
         IN IF na.exc # "none" THEN Raise(na.exc)
            ELSE IF nb.exc # "none" THEN Raise(nb.exc)
            ELSE Ok(<<na.val, nb.val, FloatOf(ts)>>)

\* "axes, buttons = <tuple>": unpacking into two targets
UnpackPair(tuple) == IF Len(tuple) = 2 THEN Ok(tuple) ELSE Raise("ValueError")

\* ---- device records ------------------------------------------------------
HasBit(x, b) == (x \div b) % 2 = 1

\* an item of the device's queue: a whole record, or a record cut short
Rec(t, n, v) == [ok |-> TRUE, type |-> t, number |-> n, value |-> v]
\* an axis record, a button record, an index out of range, a type with both
\* bits set, a type with neither bit set
Records == {Rec(2, 0, 5), Rec(1, 3, 5), Rec(2, 4, 5), Rec(3, 0, 7), Rec(4, 0, 5)}
ShortRecord == [ok |-> FALSE, type |-> 0, number |-> 0, value |-> 0]

\* mutant: the type field is compared for equality with JS_EVENT_AXIS
ApplyAxesExact(a, r) ==
    IF r.type = JS_EVENT_AXIS /\ r.number < AXES_COUNT
    THEN [a EXCEPT ![r.number + 1] = r.value] ELSE a
\* mutant: the button test is an "if" of its own, not an "elif"
ApplyButtonsNoElif(b, r) ==
    IF HasBit(r.type, JS_EVENT_BUTTON) /\ r.number < BUTTON_COUNT
    THEN [b EXCEPT ![r.number + 1] = r.value] ELSE b

\* lines 150-153: the snapshot after one decoded record
ApplyAxes(a, r) ==
    IF HasBit(r.type, JS_EVENT_AXIS) /\ r.number < AXES_COUNT
    THEN [a EXCEPT ![r.number + 1] = r.value] ELSE a
ApplyButtons(b, r) ==
    IF HasBit(r.type, JS_EVENT_AXIS) /\ r.number < AXES_COUNT THEN b
    ELSE IF HasBit(r.type, JS_EVENT_BUTTON) /\ r.number < BUTTON_COUNT
    THEN [b EXCEPT ![r.number + 1] = r.value] ELSE b


\* ---- state ---------------------------------------------------------------
VARIABLES
    pc,            \* where each invocation stands
    lockHolder,    \* the invocation holding flock(LOCK_PATH), or NoProc
    stateFile,     \* contents of STATE_PATH
    tmpFile,       \* contents of STATE_PATH.tmp
    devMode,       \* "missing", "live", "eof" (end of stream), "fail" (I/O error)
    devQueue,      \* records waiting in the device
    devOpenBy,     \* the invocation that has DEVICE open, or NoProc
    emitted,       \* records the device has produced so far
    clock,         \* the global clock
    axes, buttons, lastRead,      \* locals of read_gamepad
    startTime, endTime, gotEvent, \* locals of the sampling window
    wake,          \* when the pending select() times out
    saveTs,        \* the timestamp argument of _save_state
    exc,           \* the exception being propagated, or "none"
    outcome,       \* the path taken: "contended", "throttled", "sampled"
    result,        \* the value read_gamepad returned
    exitStatus,    \* what main returned, -1 while running
    errKind,       \* the error main reported
    opened,        \* the invocation opened the device
    saved,         \* the invocation wrote the temporary or the state file
    decoded,       \* a record was decoded in this invocation's window
    fileAtAcquire, \* the state file when the invocation took the guard
    monPc,         \* where the serial monitor stands
    backoff,       \* open_serial's local: seconds to sleep after a failure
    waits,         \* the sleeps of the current open_serial call, in order
    ser,           \* main's port handle: "none", "open", "closed"
    lastFail,      \* the call that failed last in open_serial, or "none"
    monEvent,      \* what the last readline() pass of main met
    reopens        \* connections lost so far

locals == <<axes, buttons, lastRead, startTime, endTime, gotEvent, wake, saveTs, exc>>
reports == <<outcome, result, exitStatus, errKind, opened, saved, decoded, fileAtAcquire>>
files == <<stateFile, tmpFile>>
device == <<devMode, devQueue, devOpenBy, emitted>>
monitor == <<monPc, backoff, waits, ser, lastFail, monEvent, reopens>>
gamepad == <<pc, lockHolder, files, device, clock, locals, reports>>
vars == <<pc, lockHolder, files, device, clock, locals, reports, monitor>>

NoResult == [set |-> FALSE, axes |-> Zeros(AXES_COUNT), buttons |-> Zeros(BUTTON_COUNT)]
ResultOf(a, b) == [set |-> TRUE, axes |-> a, buttons |-> b]

\* time.time() and time.monotonic()
WallNow == WallEpoch + clock
MonoNow == clock

ValidFile == JsonDump(<<3, 0, 0, 0>>, <<0, 1, 0, 0>>, WallEpoch)
LongShortFile ==
    FileOf("dict", JSeq(<<JInt(1), JInt(2), JInt(3), JInt(4), JInt(5)>>),
           JSeq(<<JInt(1)>>), JInt(WallEpoch - 1))
NonNumericFile ==
    FileOf("dict", JSeq(<<JInt(1), JStr, JInt(3), JInt(4)>>), JSeq(<<>>), JStr)
NonSeqFile ==
    FileOf("dict", JNonSeq, JSeq(<<JInt(0), JInt(0), JInt(0), JInt(0)>>),
           JInt(WallEpoch - 1))
InfFile ==
    FileOf("dict", JSeq(<<JInt(0), JInt(0), JInt(0), JInt(0)>>), JSeq(<<JInf>>),
           JInt(WallEpoch - 1))
InitStateFiles ==
    {MissingFile, GarbageFile, NonDictFile, ValidFile, LongShortFile,
     NonNumericFile, NonSeqFile, InfFile}

\* everything but the state file and the device: nothing runs yet
InitRest ==
    /\ pc = [p \in Procs |-> "idle"]
    /\ lockHolder = NoProc
    /\ tmpFile = MissingFile
    /\ devQueue = <<>>
    /\ devOpenBy = NoProc
    /\ emitted = 0
    /\ clock = 0
    /\ axes = [p \in Procs |-> Zeros(AXES_COUNT)]
    /\ buttons = [p \in Procs |-> Zeros(BUTTON_COUNT)]
    /\ lastRead = [p \in Procs |-> 0]
    /\ startTime = [p \in Procs |-> 0]
    /\ endTime = [p \in Procs |-> 0]
    /\ gotEvent = [p \in Procs |-> FALSE]
    /\ wake = [p \in Procs |-> 0]
    /\ saveTs = [p \in Procs |-> 0]
    /\ exc = [p \in Procs |-> "none"]
    /\ outcome = [p \in Procs |-> "none"]
    /\ result = [p \in Procs |-> NoResult]
    /\ exitStatus = [p \in Procs |-> -1]
    /\ errKind = [p \in Procs |-> "none"]
    /\ opened = [p \in Procs |-> FALSE]
    /\ saved = [p \in Procs |-> FALSE]
    /\ decoded = [p \in Procs |-> FALSE]
    /\ fileAtAcquire = [p \in Procs |-> MissingFile]
    /\ monPc = "main"
    /\ backoff = 0
    /\ waits = <<>>
    /\ ser = "none"
    /\ lastFail = "none"
    /\ monEvent = "none"
    /\ reopens = 0

Init ==
    /\ stateFile \in InitStateFiles
    /\ devMode \in {"missing", "live"}
    /\ InitRest

\* ---- environment ---------------------------------------------------------
Tick ==
    /\ clock < MaxClock
    /\ clock' = clock + 1
    /\ UNCHANGED <<pc, lockHolder, files, device, locals, reports, monitor>>

\* the device queues one more record for the open handle
DevEmit ==
    /\ devMode = "live"
    /\ devOpenBy # NoProc
    /\ emitted < MaxEvents
    /\ \E r \in Records \cup {ShortRecord} : devQueue' = Append(devQueue, r)
    /\ emitted' = emitted + 1
    /\ UNCHANGED <<pc, lockHolder, files, devMode, devOpenBy, clock,
                   locals, reports, monitor>>

\* the stream of the open handle ends, or its reads start failing
DevHangup ==
    /\ devMode = "live"
    /\ devOpenBy # NoProc
    /\ devMode' \in {"eof", "fail"}
    /\ UNCHANGED <<pc, lockHolder, files, devQueue, devOpenBy,
                   emitted, clock, locals, reports, monitor>>

\* select() reports the handle readable
Readable == devQueue # <<>> \/ devMode \in {"eof", "fail"}

\* ---- one invocation of main()/read_gamepad() -----------------------------
\* leaving the "with open(LOCK_PATH)" block closes the lock file and with it
\* drops the flock, on a return and on an exception alike
GuardAfterReturn(p) == IF lockHolder = p THEN NoProc ELSE lockHolder
\* mutant: the flock is dropped only on the normal return
GuardKeptOnRaise(p) == lockHolder
GuardAfterRaise(p) == IF lockHolder = p THEN NoProc ELSE lockHolder

\* mutant: the comparison of the throttle points the wrong way
ThrottledWhenStale(now, last) ==
    MIN_REFRESH_INTERVAL > 0 /\ now - last > MIN_REFRESH_INTERVAL
\* the refresh throttle of line 116
Throttled(now, last) == MIN_REFRESH_INTERVAL > 0 /\ now - last < MIN_REFRESH_INTERVAL

\* the value bound by line 110 from the loaded tuple
ContendedUnpack(tuple) == UnpackPair(tuple)

\* mutant: main has no handler of its own for FileNotFoundError
ErrKindGeneric(e) == "failure"
\* main(): the exit status and the reported error for an exception
ErrKindOf(e) == IF e = "FileNotFoundError" THEN "device_not_found" ELSE "failure"

ClearLocals(p) ==
    /\ axes' = [axes EXCEPT ![p] = Zeros(AXES_COUNT)]
    /\ buttons' = [buttons EXCEPT ![p] = Zeros(BUTTON_COUNT)]
    /\ lastRead' = [lastRead EXCEPT ![p] = 0]
    /\ startTime' = [startTime EXCEPT ![p] = 0]
    /\ endTime' = [endTime EXCEPT ![p] = 0]
    /\ gotEvent' = [gotEvent EXCEPT ![p] = FALSE]
    /\ wake' = [wake EXCEPT ![p] = 0]
    /\ saveTs' = [saveTs EXCEPT ![p] = 0]

\* mutant: the lock is taken without excluding other holders
TryLockShared(p) ==
    /\ pc[p] = "idle"
    /\ lockHolder' = p
    /\ pc' = [pc EXCEPT ![p] = "locked"]
    /\ fileAtAcquire' = [fileAtAcquire EXCEPT ![p] = stateFile]
    /\ UNCHANGED <<files, device, clock, locals, outcome, result, exitStatus, errKind,
                   opened, saved, decoded, monitor>>

\* lines 105-108: open the lock file and try flock(LOCK_EX | LOCK_NB)
TryLock(p) ==
    /\ pc[p] = "idle"
    /\ IF lockHolder = NoProc
       THEN /\ lockHolder' = p
            /\ pc' = [pc EXCEPT ![p] = "locked"]
            /\ fileAtAcquire' = [fileAtAcquire EXCEPT ![p] = stateFile]
            /\ UNCHANGED outcome
       ELSE /\ pc' = [pc EXCEPT ![p] = "contended"]
            /\ outcome' = [outcome EXCEPT ![p] = "contended"]
            /\ UNCHANGED <<lockHolder, fileAtAcquire>>
    /\ UNCHANGED <<files, device, clock, locals, result, exitStatus, errKind,
                   opened, saved, decoded, monitor>>

\* lines 109-111: the guard is held by another invocation
ContendedLoad(p) ==
    /\ pc[p] = "contended"
    /\ LET ld == _load_previous_state(stateFile)
           up == IF ld.exc = "none" THEN ContendedUnpack(ld.val) ELSE ld
       IN IF up.exc = "none"
          THEN /\ result' = [result EXCEPT ![p] = ResultOf(up.val[1], up.val[2])]
               /\ pc' = [pc EXCEPT ![p] = "return"]
               /\ UNCHANGED exc
          ELSE /\ exc' = [exc EXCEPT ![p] = up.exc]
               /\ pc' = [pc EXCEPT ![p] = "raise"]
               /\ UNCHANGED result
    /\ UNCHANGED <<lockHolder, files, device, clock, axes, buttons, lastRead,
                   startTime, endTime, gotEvent, wake, saveTs, outcome,
                   exitStatus, errKind, opened, saved, decoded,
                   fileAtAcquire, monitor>>

\* lines 113-121: load under the guard and decide whether to refresh
LoadLocked(p) ==
    /\ pc[p] = "locked"
    /\ LET ld == _load_previous_state(stateFile)
       IN IF ld.exc # "none"
          THEN /\ exc' = [exc EXCEPT ![p] = ld.exc]
               /\ pc' = [pc EXCEPT ![p] = "raise"]
               /\ UNCHANGED <<axes, buttons, lastRead, outcome, result>>
          ELSE /\ axes' = [axes EXCEPT ![p] = ld.val[1]]
               /\ buttons' = [buttons EXCEPT ![p] = ld.val[2]]
               /\ lastRead' = [lastRead EXCEPT ![p] = ld.val[3]]
               /\ UNCHANGED exc
               /\ IF Throttled(WallNow, ld.val[3])
                  THEN /\ outcome' = [outcome EXCEPT ![p] = "throttled"]
                       /\ result' = [result EXCEPT ![p] = ResultOf(ld.val[1], ld.val[2])]
                       /\ pc' = [pc EXCEPT ![p] = "return"]
                  ELSE /\ pc' = [pc EXCEPT ![p] = "open_dev"]
                       /\ UNCHANGED <<outcome, result>>
    /\ UNCHANGED <<lockHolder, files, device, clock, startTime, endTime, gotEvent,
                   wake, saveTs, exitStatus, errKind, opened, saved, decoded,
                   fileAtAcquire, monitor>>

\* lines 123-126: open the device and start the window
OpenDevice(p) ==
    /\ pc[p] = "open_dev"
    /\ IF devMode = "missing"
       THEN /\ exc' = [exc EXCEPT ![p] = "FileNotFoundError"]
            /\ pc' = [pc EXCEPT ![p] = "raise"]
            /\ UNCHANGED <<device, startTime, endTime, gotEvent, opened>>
       ELSE /\ devOpenBy' = p
            /\ devQueue' = <<>>
            /\ opened' = [opened EXCEPT ![p] = TRUE]
            /\ startTime' = [startTime EXCEPT ![p] = MonoNow]
            /\ endTime' = [endTime EXCEPT ![p] = MonoNow + READ_WINDOW]
            /\ gotEvent' = [gotEvent EXCEPT ![p] = FALSE]
            /\ pc' = [pc EXCEPT ![p] = "loop"]
            /\ UNCHANGED <<devMode, emitted, exc>>
    /\ UNCHANGED <<lockHolder, files, clock, axes, buttons, lastRead, wake, saveTs,
                   outcome, result, exitStatus, errKind, saved,
                   decoded, fileAtAcquire, monitor>>

\* mutant: a window without events returns without saving
LoopTopSaveOnEvent(p) ==
    /\ pc[p] = "loop"
    /\ IF MonoNow >= endTime[p]
       THEN /\ devOpenBy' = NoProc
            /\ devQueue' = <<>>
            /\ IF gotEvent[p]
               THEN /\ pc' = [pc EXCEPT ![p] = "save_open"]
                    /\ UNCHANGED <<outcome, result>>
               ELSE /\ pc' = [pc EXCEPT ![p] = "return"]
                    /\ outcome' = [outcome EXCEPT ![p] = "sampled"]
                    /\ result' = [result EXCEPT ![p] = ResultOf(axes[p], buttons[p])]
            /\ UNCHANGED wake
       ELSE /\ wake' = [wake EXCEPT ![p] =
                           MonoNow + Min(SELECT_TIMEOUT, Max(0, endTime[p] - MonoNow))]
            /\ pc' = [pc EXCEPT ![p] = "select"]
            /\ UNCHANGED <<devOpenBy, devQueue, outcome, result>>
    /\ UNCHANGED <<lockHolder, files, devMode, emitted, clock, axes, buttons, lastRead,
                   startTime, endTime, gotEvent, saveTs, exc, exitStatus, errKind,
                   opened, saved, decoded, fileAtAcquire, monitor>>

\* mutant: the deadline check uses > where the code uses >=
LoopTopLate(p) ==
    /\ pc[p] = "loop"
    /\ IF MonoNow > endTime[p]
       THEN /\ devOpenBy' = NoProc
            /\ devQueue' = <<>>
            /\ pc' = [pc EXCEPT ![p] = "save_open"]
            /\ UNCHANGED wake
       ELSE /\ wake' = [wake EXCEPT ![p] =
                           MonoNow + Min(SELECT_TIMEOUT, Max(0, endTime[p] - MonoNow))]
            /\ pc' = [pc EXCEPT ![p] = "select"]
            /\ UNCHANGED <<devOpenBy, devQueue>>
    /\ UNCHANGED <<lockHolder, files, devMode, emitted, clock, axes, buttons, lastRead,
                   startTime, endTime, gotEvent, saveTs, exc, reports, monitor>>

\* lines 135-140: the deadline check and the call of select()
LoopTop(p) ==
    /\ pc[p] = "loop"
    /\ IF MonoNow >= endTime[p]
       THEN /\ devOpenBy' = NoProc
            /\ devQueue' = <<>>
            /\ pc' = [pc EXCEPT ![p] = "save_open"]
            /\ UNCHANGED wake
       ELSE /\ wake' = [wake EXCEPT ![p] =
                           MonoNow + Min(SELECT_TIMEOUT, Max(0, endTime[p] - MonoNow))]
            /\ pc' = [pc EXCEPT ![p] = "select"]
            /\ UNCHANGED <<devOpenBy, devQueue>>
    /\ UNCHANGED <<lockHolder, files, devMode, emitted, clock, axes, buttons, lastRead,
                   startTime, endTime, gotEvent, saveTs, exc, reports, monitor>>

\* line 140-142: select() returns the handle
SelectReady(p) ==
    /\ pc[p] = "select"
    /\ Readable
    /\ pc' = [pc EXCEPT ![p] = "read"]
    /\ wake' = [wake EXCEPT ![p] = 0]
    /\ UNCHANGED <<lockHolder, files, device, clock, axes, buttons, lastRead,
                   startTime, endTime, gotEvent, saveTs, exc, reports, monitor>>

\* line 140-142: select() times out with nothing to read
SelectTimeout(p) ==
    /\ pc[p] = "select"
    /\ ~Readable
    /\ MonoNow >= wake[p]
    /\ pc' = [pc EXCEPT ![p] = "loop"]
    /\ wake' = [wake EXCEPT ![p] = 0]
    /\ UNCHANGED <<lockHolder, files, device, clock, axes, buttons, lastRead,
                   startTime, endTime, gotEvent, saveTs, exc, reports, monitor>>

\* lines 145-158: read one record, apply it, look for another
ReadRecord(p) ==
    /\ pc[p] = "read"
    /\ IF devQueue # <<>>
       THEN LET r == Head(devQueue)
            IN /\ devQueue' = Tail(devQueue)
               /\ IF r.ok
                  THEN /\ axes' = [axes EXCEPT ![p] = ApplyAxes(axes[p], r)]
                       /\ buttons' = [buttons EXCEPT ![p] = ApplyButtons(buttons[p], r)]
                       /\ decoded' = [decoded EXCEPT ![p] = TRUE]
                       /\ pc' = [pc EXCEPT ![p] =
                                   IF Tail(devQueue) # <<>> \/ devMode \in {"eof", "fail"}
                                   THEN "read" ELSE "extend"]
                       /\ UNCHANGED exc
                  ELSE /\ exc' = [exc EXCEPT ![p] = "struct.error"]
                       /\ pc' = [pc EXCEPT ![p] = "raise"]
                       /\ UNCHANGED <<axes, buttons, decoded>>
       ELSE /\ devMode \in {"eof", "fail"}
            /\ IF devMode = "eof"
               THEN /\ pc' = [pc EXCEPT ![p] = "extend"]
                    /\ UNCHANGED exc
               ELSE /\ exc' = [exc EXCEPT ![p] = "OSError"]
                    /\ pc' = [pc EXCEPT ![p] = "raise"]
            /\ UNCHANGED <<devQueue, axes, buttons, decoded>>
    /\ UNCHANGED <<lockHolder, files, devMode, devOpenBy, emitted, clock, lastRead,
                   startTime, endTime, gotEvent, wake, saveTs, outcome, result,
                   exitStatus, errKind, opened, saved, fileAtAcquire, monitor>>

\* mutant: a drain extends the deadline by the base window
ExtendedEndByWindow(now) == now + READ_WINDOW
\* lines 160-163: the inner loop was left, move the deadline
ExtendedEnd(now) == now + EVENT_EXTENSION
Extend(p) ==
    /\ pc[p] = "extend"
    /\ gotEvent' = [gotEvent EXCEPT ![p] = TRUE]
    /\ endTime' = [endTime EXCEPT ![p] = ExtendedEnd(MonoNow)]
    /\ pc' = [pc EXCEPT ![p] = "loop"]
    /\ UNCHANGED <<lockHolder, files, device, clock, axes, buttons, lastRead,
                   startTime, wake, saveTs, exc, reports, monitor>>

\* mutant: the snapshot is stamped with the monotonic clock
SaveTimestampMono == MonoNow
\* line 171: the timestamp handed to _save_state is time.time()
SaveTimestamp == WallNow

\* mutant: the snapshot is written straight into STATE_PATH
SaveOpenInPlace(p) ==
    /\ pc[p] = "save_open"
    /\ saveTs' = [saveTs EXCEPT ![p] = SaveTimestamp]
    /\ stateFile' = PartialFile
    /\ saved' = [saved EXCEPT ![p] = TRUE]
    /\ pc' = [pc EXCEPT ![p] = "save_write"]
    /\ UNCHANGED <<lockHolder, tmpFile, device, clock, axes, buttons, lastRead,
                   startTime, endTime, gotEvent, wake, exc, outcome, result,
                   exitStatus, errKind, opened, decoded,
                   fileAtAcquire, monitor>>

\* line 171 and 84-85: _save_state opens the temporary file for writing
SaveOpen(p) ==
    /\ pc[p] = "save_open"
    /\ saveTs' = [saveTs EXCEPT ![p] = SaveTimestamp]
    /\ tmpFile' = PartialFile
    /\ saved' = [saved EXCEPT ![p] = TRUE]
    /\ pc' = [pc EXCEPT ![p] = "save_write"]
    /\ UNCHANGED <<lockHolder, stateFile, device, clock, axes, buttons, lastRead,
                   startTime, endTime, gotEvent, wake, exc, outcome, result,
                   exitStatus, errKind, opened, decoded,
                   fileAtAcquire, monitor>>

\* line 85: the temporary file cannot be created
SaveFail(p) ==
    /\ pc[p] = "save_open"
    /\ exc' = [exc EXCEPT ![p] = "PermissionError"]
    /\ pc' = [pc EXCEPT ![p] = "raise"]
    /\ UNCHANGED <<lockHolder, files, device, clock, axes, buttons, lastRead,
                   startTime, endTime, gotEvent, wake, saveTs,
                   reports, monitor>>

\* mutant: the snapshot written is the one loaded, without the records applied
SaveWriteAsLoaded(p) ==
    /\ pc[p] = "save_write"
    /\ tmpFile' = JsonDump(_load_previous_state(fileAtAcquire[p]).val[1],
                           _load_previous_state(fileAtAcquire[p]).val[2], saveTs[p])
    /\ pc' = [pc EXCEPT ![p] = "save_replace"]
    /\ UNCHANGED <<lockHolder, stateFile, device, clock, locals,
                   reports, monitor>>

\* line 86: json.dump and the close of the temporary file
SaveWrite(p) ==
    /\ pc[p] = "save_write"
    /\ tmpFile' = JsonDump(axes[p], buttons[p], saveTs[p])
    /\ pc' = [pc EXCEPT ![p] = "save_replace"]
    /\ UNCHANGED <<lockHolder, stateFile, device, clock, locals,
                   reports, monitor>>

\* line 87: os.replace(tmp_path, STATE_PATH); line 173 builds the result
SaveReplace(p) ==
    /\ pc[p] = "save_replace"
    /\ stateFile' = tmpFile
    /\ tmpFile' = MissingFile
    /\ outcome' = [outcome EXCEPT ![p] = "sampled"]
    /\ result' = [result EXCEPT ![p] = ResultOf(axes[p], buttons[p])]
    /\ pc' = [pc EXCEPT ![p] = "return"]
    /\ UNCHANGED <<lockHolder, device, clock, locals, exitStatus, errKind, opened,
                   saved, decoded, fileAtAcquire, monitor>>

\* the with block is left by a return; main prints the result, status 0
Return(p) ==
    /\ pc[p] = "return"
    /\ lockHolder' = GuardAfterReturn(p)
    /\ exitStatus' = [exitStatus EXCEPT ![p] = 0]
    /\ pc' = [pc EXCEPT ![p] = "done"]
    /\ ClearLocals(p)
    /\ UNCHANGED <<files, device, clock, exc, outcome, result, errKind, opened,
                   saved, decoded, fileAtAcquire, monitor>>

\* the with blocks are left by an exception; main reports it, status 1
Unwind(p) ==
    /\ pc[p] = "raise"
    /\ lockHolder' = GuardAfterRaise(p)
    /\ devOpenBy' = IF devOpenBy = p THEN NoProc ELSE devOpenBy
    /\ devQueue' = IF devOpenBy = p THEN <<>> ELSE devQueue
    /\ exitStatus' = [exitStatus EXCEPT ![p] = 1]
    /\ errKind' = [errKind EXCEPT ![p] = ErrKindOf(exc[p])]
    /\ pc' = [pc EXCEPT ![p] = "done"]
    /\ ClearLocals(p)
    /\ UNCHANGED <<files, devMode, emitted, clock, exc, outcome, result, opened,
                   saved, decoded, fileAtAcquire, monitor>>

\* the process is killed inside _save_state: the kernel closes its files and
\* drops its flock
Crash(p) ==
    /\ pc[p] \in {"save_write", "save_replace"}
    /\ lockHolder' = IF lockHolder = p THEN NoProc ELSE lockHolder
    /\ devOpenBy' = IF devOpenBy = p THEN NoProc ELSE devOpenBy
    /\ devQueue' = IF devOpenBy = p THEN <<>> ELSE devQueue
    /\ pc' = [pc EXCEPT ![p] = "crashed"]
    /\ ClearLocals(p)
    /\ UNCHANGED <<files, devMode, emitted, clock, exc, reports, monitor>>

Next ==
    \/ Tick
    \/ DevEmit
    \/ DevHangup
    \/ \E p \in Procs : TryLock(p)
    \/ \E p \in Procs : ContendedLoad(p)
    \/ \E p \in Procs : LoadLocked(p)
    \/ \E p \in Procs : OpenDevice(p)
    \/ \E p \in Procs : LoopTop(p)
    \/ \E p \in Procs : SelectReady(p)
    \/ \E p \in Procs : SelectTimeout(p)
    \/ \E p \in Procs : ReadRecord(p)
    \/ \E p \in Procs : Extend(p)
    \/ \E p \in Procs : SaveOpen(p)
    \/ \E p \in Procs : SaveFail(p)
    \/ \E p \in Procs : SaveWrite(p)
    \/ \E p \in Procs : SaveReplace(p)
    \/ \E p \in Procs : Return(p)
    \/ \E p \in Procs : Unwind(p)
    \/ \E p \in Procs : Crash(p)

Spec == Init /\ [][Next]_vars

\* ---- improved_arduino_monitor.py -------------------------------------------
\* the serial monitor is a program of its own: it shares no file and no
\* variable with read_gamepad, and has a specification of its own

\* mutant: the sleep doubles without a cap
NextBackoffUncapped(b) == b * 2

\* line 81: backoff = min(backoff * 2, 30)
NextBackoff(b) == Min(b * 2, BACKOFF_CAP)

\* line 124 calls open_serial, line 70 sets its local
CallOpenSerial ==
    /\ monPc = "main"
    /\ monPc' = "opening"
    /\ backoff' = BACKOFF_START
    /\ waits' = <<>>
    /\ lastFail' = "none"
    /\ UNCHANGED <<ser, monEvent, reopens, gamepad>>

\* lines 73-77: serial.Serial and reset_input_buffer succeed, the port is
\* returned to main
OpenOk ==
    /\ monPc = "opening"
    /\ monPc' = "reading"
    /\ ser' = "open"
    /\ monEvent' = "none"
    /\ UNCHANGED <<backoff, waits, lastFail, reopens, gamepad>>

\* lines 78-80: serial.Serial or reset_input_buffer raised SerialException;
\* the sleep of backoff seconds begins
OpenFail ==
    /\ monPc = "opening"
    /\ Len(waits) < MaxFails
    /\ \E f \in {"Serial", "reset_input_buffer"} : lastFail' = f
    /\ waits' = Append(waits, backoff)
    /\ monPc' = "sleeping"
    /\ UNCHANGED <<backoff, ser, monEvent, reopens, gamepad>>

\* lines 80-81 and back to line 71: the sleep ends, the next one is longer
SleepDone ==
    /\ monPc = "sleeping"
    /\ backoff' = NextBackoff(backoff)
    /\ monPc' = "opening"
    /\ UNCHANGED <<waits, ser, lastFail, monEvent, reopens, gamepad>>

\* Ctrl-C inside open_serial: nothing there catches KeyboardInterrupt and
\* line 124 is outside main's try, so the process dies
OpenInterrupt ==
    /\ monPc \in {"opening", "sleeping"}
    /\ monPc' = "killed"
    /\ UNCHANGED <<backoff, waits, ser, lastFail, monEvent, reopens, gamepad>>

\* lines 127-138 and 159-161: a pass of the read loop that stays in it: a
\* timeout, a blank line, a line printed, or an unexpected exception logged
ReadPass ==
    /\ monPc = "reading"
    /\ \E e \in {"timeout", "blank", "line", "Exception"} : monEvent' = e
    /\ UNCHANGED <<monPc, backoff, waits, ser, lastFail, reopens, gamepad>>

\* lines 140-146: SerialException while reading; close (errors swallowed)
\* and break to the outer loop
ReadLost ==
    /\ monPc = "reading"
    /\ reopens < MaxReopens
    /\ monEvent' = "SerialException"
    /\ ser' = "closed"
    /\ reopens' = reopens + 1
    /\ monPc' = "main"
    /\ UNCHANGED <<backoff, waits, lastFail, gamepad>>

\* lines 148-157: Ctrl-C while reading; close and sys.exit(0)
ReadInterrupt ==
    /\ monPc = "reading"
    /\ monEvent' = "KeyboardInterrupt"
    /\ ser' = "closed"
    /\ monPc' = "exited"
    /\ UNCHANGED <<backoff, waits, lastFail, reopens, gamepad>>

MonInit ==
    /\ stateFile = MissingFile
    /\ devMode = "missing"
    /\ InitRest

MonNext ==
    \/ CallOpenSerial
    \/ OpenOk
    \/ OpenFail
    \/ SleepDone
    \/ OpenInterrupt
    \/ ReadPass
    \/ ReadLost
    \/ ReadInterrupt

MonitorSpec == MonInit /\ [][MonNext]_vars

\* ---- vocabulary of the properties ----------------------------------------
\* the section between taking the guard and leaving the with block
GuardedPcs == {"locked", "open_dev", "loop", "select", "read", "extend",
               "save_open", "save_write", "save_replace"}
\* the sampling and saving section
SamplingPcs == {"loop", "select", "read", "extend",
                "save_open", "save_write", "save_replace"}
WindowPcs == {"loop", "select", "read", "extend"}

\* captured_at of a file, as an invocation loading it would see it
CapturedAt(file) == FloatOf(IF file.kind = "dict" THEN file.timestamp ELSE JInt(0))

AllInts(j) == j.seq /\ \A i \in 1..Len(j.items) : j.items[i].t = "int"
\* a state file holding a snapshot of the documented shape (any length)
WellFormed(file) ==
    /\ file.kind = "dict"
    /\ AllInts(file.axes) /\ AllInts(file.buttons)
    /\ file.timestamp.t = "int"

DefaultState == <<Zeros(AXES_COUNT), Zeros(BUTTON_COUNT), 0>>

\* ---- C1 ------------------------------------------------------------------
\* C1: an invocation that finds the guard held by another one completes
\* successfully (exit status 0) and returns the axes and buttons of the
\* persisted snapshot, without opening the device and without saving.
C1_ContendedServesCache ==
    \A p \in Procs :
        (outcome[p] = "contended" /\ pc[p] = "done")
            => /\ exitStatus[p] = 0
               /\ result[p].set
               /\ ~opened[p] /\ ~saved[p]

\* ---- C2 ------------------------------------------------------------------
\* C2: at most one invocation holds the guard; only the holder has the
\* device open or is inside _save_state; no two invocations are in the
\* sampling/saving section together.
C2_MutualExclusion ==
    /\ \A p \in Procs : pc[p] \in GuardedPcs => lockHolder = p
    /\ devOpenBy # NoProc => lockHolder = devOpenBy
    /\ \A p \in Procs : (tmpFile.kind # "missing" /\ pc[p] \in {"save_write", "save_replace"})
                            => lockHolder = p
    /\ Cardinality({p \in Procs : pc[p] \in SamplingPcs}) <= 1
C2_Witness ==
    \E p, q \in Procs :
        /\ p # q
        /\ devOpenBy = p /\ pc[p] \in WindowPcs
        /\ pc[q] = "contended"

\* ---- C3 ------------------------------------------------------------------
\* C3: an invocation that holds the guard and loads a snapshot younger than
\* min_refresh_interval returns the loaded axes and buttons, never opens the
\* device, never saves, and leaves the state file as it was when it took
\* the guard.
C3_ThrottleStep(p) ==
    LET ld == _load_previous_state(stateFile)
    IN (/\ pc[p] = "locked" /\ pc'[p] # "locked"
        /\ ld.exc = "none"
        /\ MIN_REFRESH_INTERVAL > 0
        /\ WallNow - ld.val[3] < MIN_REFRESH_INTERVAL)
       => /\ pc'[p] = "return"
          /\ outcome'[p] = "throttled"
          /\ result'[p] = ResultOf(ld.val[1], ld.val[2])
          /\ stateFile' = stateFile /\ tmpFile' = tmpFile
C3_ThrottledState(p) ==
    outcome[p] = "throttled"
        => /\ ~opened[p] /\ ~saved[p]
           /\ pc[p] = "return" =>
                /\ stateFile = fileAtAcquire[p]
                /\ result[p] = ResultOf(_load_previous_state(stateFile).val[1],
                                        _load_previous_state(stateFile).val[2])
           /\ pc[p] = "done" => exitStatus[p] = 0
C3_ThrottleReturnsLoaded ==
    /\ [](\A p \in Procs : C3_ThrottledState(p))
    /\ [][\A p \in Procs : C3_ThrottleStep(p)]_vars
C3_Witness ==
    \E p \in Procs :
        /\ pc[p] = "done" /\ outcome[p] = "throttled"
        /\ result[p].axes # Zeros(AXES_COUNT)

\* ---- C4 ------------------------------------------------------------------
\* C4 as stated: after a sampling window the persisted captured_at differs
\* from before if the device produced an event, and is the same as before
\* (nothing saved) if it produced none.
C4_SaveOnlyOnEvent ==
    \A p \in Procs :
        (pc[p] = "return" /\ outcome[p] = "sampled")
            => /\ decoded[p] => CapturedAt(stateFile) # CapturedAt(fileAtAcquire[p])
               /\ ~decoded[p] => /\ CapturedAt(stateFile) = CapturedAt(fileAtAcquire[p])
                                 /\ ~saved[p]
\* C4 amended: a window that completes is always followed by a save, with or
\* without events; the saved captured_at is the wall clock at the save, at
\* least min_refresh_interval after the loaded one.  When the device cannot
\* be opened, a read fails or the save fails, the state file stays as it was.
C4_SaveAfterEveryWindow ==
    \A p \in Procs :
        /\ (pc[p] = "return" /\ outcome[p] = "sampled")
             => /\ saved[p]
                /\ stateFile = JsonDump(result[p].axes, result[p].buttons, saveTs[p])
                /\ saveTs[p] <= WallNow
                /\ CapturedAt(stateFile) >= lastRead[p] + MIN_REFRESH_INTERVAL
                /\ MIN_REFRESH_INTERVAL > 0
                      => CapturedAt(stateFile) # CapturedAt(fileAtAcquire[p])
        /\ (pc[p] = "raise" /\ lockHolder = p) => stateFile = fileAtAcquire[p]
C4_Witness ==
    \E p \in Procs :
        /\ pc[p] = "return" /\ outcome[p] = "sampled"
        /\ ~decoded[p]
        /\ CapturedAt(fileAtAcquire[p]) > 0

\* ---- C5 ------------------------------------------------------------------
\* C5: at every point of a save, a crash between the write of the temporary
\* file and the rename included, the state file is never a partially
\* written snapshot; it changes only by the rename, which puts the complete
\* new snapshot in place of the previous one, and it never goes missing.
C5_StateFileStep ==
    /\ stateFile' # stateFile
          => /\ stateFile' = tmpFile
             /\ tmpFile.kind = "dict"
             /\ \E p \in Procs : /\ pc[p] = "save_replace"
                                 /\ stateFile' = JsonDump(axes[p], buttons[p], saveTs[p])
    /\ stateFile'.kind = "missing" => stateFile.kind = "missing"
C5_AtomicSave ==
    /\ [](stateFile.kind # "partial")
    /\ [][C5_StateFileStep]_vars
C5_Witness ==
    \E p \in Procs :
        /\ pc[p] = "crashed"
        /\ tmpFile.kind = "dict"
        /\ stateFile = fileAtAcquire[p]
        /\ stateFile.kind = "dict"

\* ---- C6 ------------------------------------------------------------------
\* C6: however an invocation ends, it does not hold the guard afterwards;
\* when no invocation is running the guard is free.
Ended(p) == pc[p] \in {"done", "crashed"}
C6_GuardReleased ==
    /\ \A p \in Procs : Ended(p) => lockHolder # p
    /\ (\A p \in Procs : pc[p] = "idle" \/ Ended(p)) => lockHolder = NoProc
C6_Witness ==
    \E p, q \in Procs :
        /\ pc[p] = "done" /\ exitStatus[p] = 1 /\ opened[p]
        /\ pc[q] \in GuardedPcs

\* ---- C7 ------------------------------------------------------------------
\* C7: whatever the state file holds that is not a snapshot of the right
\* shape (missing, undecodable, not an object, axes or buttons that are no
\* sequence, non-numeric elements or timestamp), the invocation that loads
\* it goes on with the zeroed default snapshot and captured_at = 0, and the
\* load raises nothing.
C7_CorruptStateGivesDefault ==
    \A p \in Procs :
        (lockHolder = p /\ ~WellFormed(fileAtAcquire[p]))
            => /\ pc[p] = "raise" => exc[p] \notin {"TypeError", "OverflowError"}
               /\ pc[p] = "open_dev" => <<axes[p], buttons[p], lastRead[p]>> = DefaultState

\* ---- C8 ------------------------------------------------------------------
\* C8: when the device path does not exist as the guard holder opens it, the
\* invocation ends with the device-not-found error and exit status 1, having
\* neither opened the device, retried, nor saved, and the state file is as
\* it was when the guard was taken.
C8_OpenStep(p) ==
    (pc[p] = "open_dev" /\ pc'[p] # "open_dev" /\ devMode = "missing")
        => /\ pc'[p] = "raise" /\ exc'[p] = "FileNotFoundError"
           /\ stateFile' = stateFile /\ tmpFile' = tmpFile
C8_EndStep(p) ==
    (pc[p] = "raise" /\ exc[p] = "FileNotFoundError" /\ pc'[p] # "raise")
        => /\ pc'[p] = "done"
           /\ exitStatus'[p] = 1 /\ errKind'[p] = "device_not_found"
           /\ ~opened'[p] /\ ~saved'[p]
           /\ stateFile' = fileAtAcquire[p] /\ tmpFile' = tmpFile
C8_DeviceNotFound ==
    /\ [](\A p \in Procs : errKind[p] = "device_not_found"
              => exitStatus[p] = 1 /\ ~opened[p] /\ ~saved[p])
    /\ [][\A p \in Procs : C8_OpenStep(p) /\ C8_EndStep(p)]_vars
C8_Witness ==
    \E p \in Procs :
        /\ pc[p] = "done" /\ errKind[p] = "device_not_found"
        /\ stateFile.kind = "dict"

\* ---- C9 ------------------------------------------------------------------
\* C9: when a device read fails in the middle of a sampling window (I/O
\* error or short record), the invocation still persists the snapshot
\* accumulated so far and ends with exit status 0.
C9_ReadFailureIsSoft ==
    \A p \in Procs :
        (pc[p] = "done" /\ opened[p] /\ exc[p] \in {"OSError", "struct.error"})
            => exitStatus[p] = 0 /\ saved[p]

\* ---- C10 -----------------------------------------------------------------
\* C10: the sampling window is bounded: as long as no record was drained its
\* deadline stays within base_window of its start, for a device that is
\* never ready and for one at end of stream alike; and a window in which the
\* device was never ready leaves the snapshot as loaded.
C10_WindowBounded ==
    \A p \in Procs :
        (pc[p] \in WindowPcs /\ ~decoded[p])
            => /\ endTime[p] <= startTime[p] + READ_WINDOW
               /\ <<axes[p], buttons[p]>> =
                     <<_load_previous_state(fileAtAcquire[p]).val[1],
                       _load_previous_state(fileAtAcquire[p]).val[2]>>

\* ---- C11 -----------------------------------------------------------------
\* C11: after records are drained at time t the deadline is t +
\* event_extension: the window is not closed before the clock reaches it,
\* it is closed at the first deadline check at or after it, and the wait in
\* select() never reaches past it.
C11_ExtendStep(p) ==
    (pc[p] = "extend" /\ pc'[p] = "loop")
        => endTime'[p] = MonoNow + EVENT_EXTENSION
C11_CloseStep(p) ==
    (pc[p] = "loop" /\ gotEvent[p] /\ pc'[p] # "loop")
        => (pc'[p] = "save_open" <=> MonoNow >= endTime[p])
C11_WindowTail ==
    /\ [](\A p \in Procs : (pc[p] = "select" /\ gotEvent[p]) => wake[p] <= endTime[p])
    /\ [][\A p \in Procs : C11_ExtendStep(p) /\ C11_CloseStep(p)]_vars
C11_Witness ==
    \E p \in Procs :
        /\ pc[p] = "save_open"
        /\ gotEvent[p] /\ decoded[p]
        /\ MonoNow = endTime[p]
        /\ endTime[p] > startTime[p] + READ_WINDOW

\* ---- C12 -----------------------------------------------------------------
\* C12: every snapshot read_gamepad returns, and every snapshot it writes to
\* the temporary or the state file, has exactly AXES_COUNT axes and
\* BUTTON_COUNT buttons, whatever the state file held before and whatever
\* the device delivered.
FixedShape(a, b) == Len(a) = AXES_COUNT /\ Len(b) = BUTTON_COUNT
C12_FixedLength ==
    /\ [](\A p \in Procs : result[p].set => FixedShape(result[p].axes, result[p].buttons))
    /\ [](tmpFile.kind = "dict" => FixedShape(tmpFile.axes.items, tmpFile.buttons.items))
    /\ [][stateFile' # stateFile
            => FixedShape(stateFile'.axes.items, stateFile'.buttons.items)]_vars
C12_Witness ==
    \E p \in Procs :
        /\ fileAtAcquire[p] = LongShortFile
        /\ pc[p] = "return" /\ outcome[p] = "sampled" /\ decoded[p]
        /\ stateFile # LongShortFile

\* ---- C13 -----------------------------------------------------------------
\* the invocations load state files whose "axes" are any sequence of up to
\* MaxLen scalars; the device is absent
NormScalars == {JInt(7), JStr, JInf}
NormSeqs == UNION {[1..n -> NormScalars] : n \in 0..MaxLen}
NormFiles ==
    {FileOf("dict", JSeq(sq), JSeq(<<JInt(1)>>), JInt(ts)) :
        sq \in NormSeqs, ts \in {WallEpoch - 1, WallEpoch}}
NormInit ==
    /\ stateFile \in NormFiles
    /\ devMode = "missing"
    /\ InitRest
NormNext ==
    \/ \E p \in Procs : TryLock(p)
    \/ \E p \in Procs : ContendedLoad(p)
    \/ \E p \in Procs : LoadLocked(p)
    \/ \E p \in Procs : OpenDevice(p)
    \/ \E p \in Procs : Return(p)
    \/ \E p \in Procs : Unwind(p)
NormSpec == NormInit /\ [][NormNext]_vars

\* a list of ints handed to _normalise again
Rewrap(v) == JSeq([i \in 1..Len(v) |-> JInt(v[i])])
Idempotent(values, count) ==
    LET once == _normalise(values, count)
    IN once.exc = "none" => _normalise(Rewrap(once.val), count) = once
\* C13: _normalise(_normalise(values, count), count) = _normalise(values,
\* count) for every sequence and every count for which the first call
\* returns; the lists an invocation loaded are fixed points.
C13_NormaliseIdempotent ==
    /\ \A count \in 0..MaxCount :
          Idempotent(stateFile.axes, count) /\ Idempotent(stateFile.buttons, count)
    /\ \A p \in Procs :
          pc[p] \in {"open_dev", "return"}
             => /\ _normalise(Rewrap(axes[p]), AXES_COUNT) = Ok(axes[p])
                /\ _normalise(Rewrap(buttons[p]), BUTTON_COUNT) = Ok(buttons[p])
C13_Witness ==
    \E p \in Procs :
        /\ pc[p] = "return" /\ outcome[p] = "throttled"
        /\ Len(stateFile.axes.items) > AXES_COUNT
        /\ \E i \in 1..AXES_COUNT : stateFile.axes.items[i] = JStr
        /\ result[p].axes # Zeros(AXES_COUNT)

\* ---- C14 -----------------------------------------------------------------
\* C14: a read that returns zero bytes is not device activity: it neither
\* sets the activity flag nor leads to the step that moves the deadline, so
\* both are only ever reached after a record was decoded.
C14_EofIsNotActivity ==
    \A p \in Procs :
        (pc[p] \in WindowPcs /\ (gotEvent[p] \/ pc[p] = "extend")) => decoded[p]

\* ---- C15 -----------------------------------------------------------------
\* the step in which invocation p decodes the record at the head of the queue
DecodeStep(p) ==
    /\ pc[p] = "read"
    /\ devQueue # <<>>
    /\ Head(devQueue).ok
    /\ devQueue' = Tail(devQueue)
ChangedSlots(p) ==
    Cardinality({i \in 1..AXES_COUNT : axes'[p][i] # axes[p][i]})
      + Cardinality({i \in 1..BUTTON_COUNT : buttons'[p][i] # buttons[p][i]})
\* C15: one decoded record changes at most one slot: an axis record with
\* index < AXES_COUNT only axes[index], a button record with index <
\* BUTTON_COUNT only buttons[index]; an out-of-range index changes nothing
\* and raises nothing.
C15_RecordStep(p) ==
    DecodeStep(p) =>
        LET r == Head(devQueue)
        IN /\ ChangedSlots(p) <= 1
           /\ (r.type = JS_EVENT_AXIS /\ r.number < AXES_COUNT)
                 => /\ axes'[p] = [axes[p] EXCEPT ![r.number + 1] = r.value]
                    /\ buttons'[p] = buttons[p]
           /\ (r.type = JS_EVENT_BUTTON /\ r.number < BUTTON_COUNT)
                 => /\ buttons'[p] = [buttons[p] EXCEPT ![r.number + 1] = r.value]
                    /\ axes'[p] = axes[p]
           /\ (r.number >= AXES_COUNT /\ r.number >= BUTTON_COUNT)
                 => /\ axes'[p] = axes[p] /\ buttons'[p] = buttons[p]
                    /\ pc'[p] # "raise" /\ exc'[p] = exc[p]
C15_OneSlotPerRecord == [][\A p \in Procs : C15_RecordStep(p)]_vars
C15_Witness ==
    \E p \in Procs :
        /\ pc[p] \in WindowPcs /\ decoded[p]
        /\ axes[p][1] = 5
        /\ buttons[p][4] = 5

\* ---- C16 -----------------------------------------------------------------
\* C16 as stated: a record whose type is neither exactly JS_EVENT_AXIS nor
\* exactly JS_EVENT_BUTTON leaves axes and buttons unchanged.
C16_OtherTypeStep(p) ==
    (DecodeStep(p) /\ Head(devQueue).type \notin {JS_EVENT_AXIS, JS_EVENT_BUTTON})
        => axes'[p] = axes[p] /\ buttons'[p] = buttons[p]
C16_ExactTypesOnly == [][\A p \in Procs : C16_OtherTypeStep(p)]_vars
\* C16 amended: the type field is tested bit by bit.  A record with the
\* axis bit set and index < AXES_COUNT overwrites axes[index] whatever other
\* bits are set; otherwise one with the button bit set and index <
\* BUTTON_COUNT overwrites buttons[index]; a record with neither bit set
\* changes nothing.
AxisBit(t) == (t \div 2) % 2 = 1
ButtonBit(t) == t % 2 = 1
C16_BitStep(p) ==
    DecodeStep(p) =>
        LET r == Head(devQueue)
            asAxis == AxisBit(r.type) /\ r.number < AXES_COUNT
            asButton == ~asAxis /\ ButtonBit(r.type) /\ r.number < BUTTON_COUNT
        IN /\ asAxis => /\ axes'[p] = [axes[p] EXCEPT ![r.number + 1] = r.value]
                        /\ buttons'[p] = buttons[p]
           /\ asButton => /\ buttons'[p] = [buttons[p] EXCEPT ![r.number + 1] = r.value]
                          /\ axes'[p] = axes[p]
           /\ (~AxisBit(r.type) /\ ~ButtonBit(r.type))
                 => axes'[p] = axes[p] /\ buttons'[p] = buttons[p]
C16_TypeBitsDecide == [][\A p \in Procs : C16_BitStep(p)]_vars
C16_Witness ==
    \E p \in Procs :
        /\ pc[p] \in WindowPcs /\ decoded[p]
        /\ axes[p][1] = 7
        /\ buttons[p] = _load_previous_state(fileAtAcquire[p]).val[2]

\* ---- C17 -----------------------------------------------------------------
\* C17: captured_at of the state file never decreases: it changes only in
\* the rename of a save, to a value not below the one it replaces.
C17_FileStep ==
    /\ CapturedAt(stateFile') >= CapturedAt(stateFile)
    /\ CapturedAt(stateFile') # CapturedAt(stateFile)
          => \E p \in Procs : /\ pc[p] = "save_replace" /\ pc'[p] = "return"
                              /\ CapturedAt(stateFile') = saveTs[p]
C17_CapturedAtMonotonic == [][C17_FileStep]_vars
C17_Witness ==
    \E p, q \in Procs :
        /\ p # q
        /\ pc[p] = "done" /\ outcome[p] = "sampled"
        /\ pc[q] = "return" /\ outcome[q] = "sampled"
        /\ CapturedAt(fileAtAcquire[q]) > WallEpoch
        /\ CapturedAt(stateFile) > CapturedAt(fileAtAcquire[q])

\* ---- C18 -----------------------------------------------------------------
\* C18 as stated: a window in which records arrived never closes sooner
\* than base_window after its start.
C18_NeverShorterThanBase ==
    \A p \in Procs :
        (pc[p] = "save_open" /\ decoded[p]) => MonoNow >= startTime[p] + READ_WINDOW
\* C18 amended: a drain at time now sets the deadline to now +
\* event_extension, which is earlier than the deadline before whenever now +
\* event_extension is below it; a window in which records arrived closes no
\* sooner than event_extension after its start, and may close before
\* base_window has passed.
C18_DrainStep(p) ==
    (pc[p] = "extend" /\ pc'[p] = "loop")
        => /\ endTime'[p] >= MonoNow
           /\ endTime'[p] - MonoNow = EVENT_EXTENSION
           /\ (endTime'[p] < endTime[p] <=> MonoNow + EVENT_EXTENSION < endTime[p])
C18_DeadlineFollowsLastDrain ==
    /\ [](\A p \in Procs : (pc[p] = "save_open" /\ decoded[p])
              => MonoNow >= startTime[p] + EVENT_EXTENSION)
    /\ [][\A p \in Procs : C18_DrainStep(p)]_vars
C18_Witness ==
    \E p \in Procs :
        /\ pc[p] = "save_open" /\ decoded[p]
        /\ MonoNow < startTime[p] + READ_WINDOW

\* ---- C19 -----------------------------------------------------------------
\* C19: at the step in which an invocation that returns a result leaves the
\* with block, the axes and buttons it returns are those a load of the
\* state file yields, and main exits with status 0.
C19_ReleaseStep(p) ==
    (pc[p] = "return" /\ pc'[p] = "done")
        => /\ result[p].set /\ result'[p] = result[p]
           /\ exitStatus'[p] = 0
           /\ stateFile' = stateFile
           /\ _load_previous_state(stateFile).exc = "none"
           /\ result[p].axes = _load_previous_state(stateFile).val[1]
           /\ result[p].buttons = _load_previous_state(stateFile).val[2]
C19_ResultMatchesFile == [][\A p \in Procs : C19_ReleaseStep(p)]_vars
C19_Witness ==
    \E p, q \in Procs :
        /\ pc[p] = "done" /\ outcome[p] = "sampled" /\ decoded[p]
        /\ result[p].axes # _load_previous_state(fileAtAcquire[p]).val[1]
        /\ outcome[q] = "contended"

\* ---- C20 -----------------------------------------------------------------
\* the sleeps of one open_serial call: 2 first, then twice the one before,
\* held at 30
C20_WaitsShape ==
    \A i \in 1..Len(waits) :
        /\ waits[i] <= 30
        /\ (i = 1 => waits[i] = 2)
        /\ (i > 1 => waits[i] = Min(2 * waits[i - 1], 30))
\* open_serial is left only with an opened port (or by Ctrl-C), and a
\* failure leads to a sleep and another attempt
C20_OpenStep ==
    /\ (monPc \in {"opening", "sleeping"}
            => monPc' \in {"opening", "sleeping", "reading", "killed"})
    /\ (monPc # "reading" /\ monPc' = "reading")
            => (monPc = "opening" /\ ser' = "open")
    /\ (monPc = "opening" /\ lastFail' # lastFail)
            => (monPc' = "sleeping" /\ Len(waits') = Len(waits) + 1)
    /\ (monPc = "sleeping" /\ monPc' \notin {"sleeping", "killed"})
            => monPc' = "opening"
\* a SerialException while reading closes the port and leads to open_serial
C20_LostStep ==
    /\ (monPc = "reading" /\ monEvent' = "SerialException")
            => (ser' = "closed" /\ monPc' = "main")
    /\ (monPc = "main" /\ monPc' # "main")
            => (monPc' = "opening" /\ waits' = <<>>)
\* C20: open_serial retries after every failed attempt and returns only an
\* opened port; its sleeps are 2 s, then doubled after each failure and
\* held at 30 s; a SerialException while reading makes main close the port
\* and call open_serial again instead of exiting.
C20_ReopenWithBackoff ==
    /\ [](C20_WaitsShape)
    /\ [][C20_OpenStep /\ C20_LostStep]_vars
C20_Witness ==
    /\ monPc = "reading" /\ ser = "open"
    /\ reopens >= 1
    /\ Len(waits) >= 6 /\ waits[5] = 30 /\ waits[6] = 30

====
